---- MODULE Spec2Model ----
(***************************************************************************)
(* A model of decentralized_etl_gist.py: the handler registry of           *)
(* EffPipeline, the run generator with its two handlers, the fold          *)
(* run_acct_effs, AccountState and the __main__ driver loop; and of        *)
(* state_sentinel_mock.py: StateSentinel, its guard on assignments and its *)
(* log of attribute reads.                                                 *)
(*                                                                         *)
(* A Python dict is a function whose DOMAIN is the set of its keys: a      *)
(* logline that lacks a field is a record without that field, and reading  *)
(* the absent key is the KeyError the code raises.                         *)
(***************************************************************************)
EXTENDS Integers, Sequences, FiniteSets, TLC

VARIABLES
    pc,          \* where the program is: "load", "run", "loop", "done", "failed", "fold", ...
    handlers,    \* EffPipeline._handlers: event type -> list of handler names
    reg_log,     \* every handle(event_type)(f) call made so far, in call order
    pipeline,    \* the attributes of the EffPipeline instance (T_count, when set)
    pipeline0,   \* the same attributes as they were when run was called
    key,         \* the acct_id of the loglines the current pipeline is given
    consumed,    \* the loglines the current run has taken from its input, in order
    emitted,     \* the effects the current run has yielded, in order, each with its origin
    calls,       \* every call of a handler the current run has attempted, in order
    tc_hist,     \* getattr(pipeline, 'T_count', 0) before each consumed logline
    err,         \* the exception that ended the run ("none" while there is none)
    f_seed,      \* run_acct_effs: the mapping given to the first call (or None)
    f_effs2,     \* run_acct_effs: the effects of the first call
    f_effs,      \* run_acct_effs: the effects of the second call
    f_mid,       \* run_acct_effs: how the first call ended
    f_out,       \* run_acct_effs: how the second call, given the first one's result, ended
    acct_states, \* the driver's acct_states: acct_id -> AccountState
    acct_state,  \* the driver's acct_state: the AccountState of the current partition
    pending,     \* groupby: the logline read ahead and not yet handed out (at most one)
    log,         \* the loglines groupby has read from the input so far, in order
    store0,      \* acct_states as it was when the current partition began
    workers,     \* concurrent driver: acct_id -> what the worker of that account holds
    parts,       \* concurrent driver: acct_id -> the loglines of the account, in order
    sentinel,    \* the StateSentinel instance under construction or constructed
    ops          \* what has been done with the sentinel so far, in order, with the outcome

pipe_vars == <<pc, handlers, reg_log, pipeline, pipeline0, key, consumed, emitted, calls, tc_hist, err>>
fold_vars == <<f_seed, f_effs2, f_effs, f_mid, f_out>>
drv_vars == <<acct_states, acct_state, pending, log, store0>>
wrk_vars == <<workers, parts>>
sen_vars == <<sentinel, ops>>
vars == <<pipe_vars, fold_vars, drv_vars, wrk_vars, sen_vars>>

(***************************************************************************)
(* Bounds and input sets.                                                  *)
(***************************************************************************)
MaxEvents == 2      \* loglines given to one pipeline run
MaxRegs == 1        \* handle() calls made after the module's own three
MaxFoldLen == 2     \* effects given to one call of run_acct_effs
MaxMainLog == 6     \* loglines in the input of the __main__ driver

Tickers == {"AAPL", "GOOG"}
Amts == {0, 2}
Accts == {1, 2}
Price == 3
StartCounts == {1}
HandledTypes == {"buy", "sell", "T"}
UnhandledTypes == {"X"}                     \* never registered
RegTypes == {"T", "buy"}
CommonFields == <<"ticker", "amt", "acct_id", "ts">>
HandlerNames == {"txn_handler_stateless", "T_handler_stateful"}

\* Eff = namedtuple('Eff', ('ticker', 'amt', 'acct_id', 'ts'))
Eff(ticker, amt, acct_id, ts) ==
    [ticker |-> ticker, amt |-> amt, acct_id |-> acct_id, ts |-> ts]

\* del d[k] on a dict d
Without(d, k) == [f \in (DOMAIN d) \ {k} |-> d[f]]

\* A logline of the given type; buy and sell loglines carry a price.
Logline(type, ticker, amt, acct_id, ts) ==
    IF type \in {"buy", "sell"}
    THEN [type |-> type, ticker |-> ticker, amt |-> amt, acct_id |-> acct_id,
          ts |-> ts, price |-> Price]
    ELSE [type |-> type, ticker |-> ticker, amt |-> amt, acct_id |-> acct_id,
          ts |-> ts]

\* The shapes of the loglines fed to a run: complete ones, and ones with one key
\* of 'type', 'ticker', 'amt', 'acct_id', 'ts' left out.
Shapes ==
    [type : HandledTypes, ticker : Tickers, amt : Amts, drop : {"none"}]
    \cup [type : UnhandledTypes, ticker : {"AAPL"}, amt : {2}, drop : {"none"}]
    \cup [type : {"T", "buy"} \cup UnhandledTypes, ticker : {"AAPL"}, amt : {2},
          drop : {"type", "ticker", "amt", "acct_id", "ts"}]

MakeLogline(s, acct_id, ts) ==
    LET full == Logline(s.type, s.ticker, s.amt, acct_id, ts)
    IN  IF s.drop = "none" THEN full ELSE Without(full, s.drop)

(***************************************************************************)
(* EffPipeline: registry and run.                                          *)
(***************************************************************************)

\* The registry after the module is loaded. Decorators apply bottom-up: 'sell'
\* is registered before 'buy'.
LoadedRegs ==
    << [type |-> "sell", h |-> "txn_handler_stateless"],
       [type |-> "buy",  h |-> "txn_handler_stateless"],
       [type |-> "T",    h |-> "T_handler_stateful"] >>

\* handle as it would be if a handler already in the list were not added again
handle_dedup(hs, event_type, f) ==
    [t \in (DOMAIN hs) \cup {event_type} |->
        IF t = event_type
        THEN (IF t \in DOMAIN hs
              THEN (IF \E n \in 1..Len(hs[t]) : hs[t][n] = f
                    THEN hs[t] ELSE Append(hs[t], f))
              ELSE <<f>>)
        ELSE hs[t]]

\* cls._handlers[event_type].append(f) on a defaultdict(list)
handle(hs, event_type, f) ==
    [t \in (DOMAIN hs) \cup {event_type} |->
        IF t = event_type
        THEN (IF t \in DOMAIN hs THEN Append(hs[t], f) ELSE <<f>>)
        ELSE hs[t]]

RECURSIVE handle_all(_, _)
handle_all(hs, regs) ==
    IF regs = <<>> THEN hs
    ELSE handle_all(handle(hs, Head(regs).type, Head(regs).h), Tail(regs))

EmptyDict == [k \in {} |-> 0]

\* An object as object.__new__ leaves it, of a class that declares no
\* __slots__: no slot is set and its __dict__ has no key. The fields slot,
\* ints, guard_state, _attr_accesses and _attr_access_order hold the values;
\* keys is the set of the names that are in the instance's __dict__.
NoSentinel ==
    [cls |-> [kind |-> "none", names |-> <<>>], slot |-> EmptyDict, keys |-> {},
     ints |-> EmptyDict, guard_state |-> FALSE, _attr_accesses |-> EmptyDict,
     _attr_access_order |-> <<>>]

\* No concurrent driver is running and no sentinel has been asked for.
RestIdle ==
    /\ workers = EmptyDict
    /\ parts = EmptyDict
    /\ sentinel = NoSentinel
    /\ ops = <<>>

\* lookup as it would be if the list came back latest registration first
lookup_reversed(hs, event_type) ==
    IF event_type \in DOMAIN hs
    THEN [n \in 1..Len(hs[event_type]) |-> hs[event_type][Len(hs[event_type]) + 1 - n]]
    ELSE <<>>

\* self._handlers.get(event_type, [])
lookup(hs, event_type) ==
    IF event_type \in DOMAIN hs THEN hs[event_type] ELSE <<>>

\* getattr(obj, name, default)
getattr(obj, name, default) ==
    IF name \in DOMAIN obj THEN obj[name] ELSE default

\* obj.name = value
setattr(obj, name, value) ==
    [k \in (DOMAIN obj) \cup {name} |-> IF k = name THEN value ELSE obj[k]]

\* The first key of `fields` that the logline lacks is the KeyError of
\* get_common_fields.
get_common_fields_ok(logline) ==
    \A i \in 1..Len(CommonFields) : CommonFields[i] \in DOMAIN logline

\* txn_handler_stateless as it would be with the cash leg moving the same way
\* as the position
txn_handler_same_sign(logline) ==
    IF ~get_common_fields_ok(logline) \/ "type" \notin DOMAIN logline
       \/ "price" \notin DOMAIN logline
    THEN [effs |-> <<>>, err |-> "KeyError"]
    ELSE LET dir_ == IF logline.type = "buy" THEN 1 ELSE -1
         IN  [effs |-> << Eff(logline.ticker, dir_ * logline.amt,
                              logline.acct_id, logline.ts),
                          Eff("CASH", dir_ * logline.amt * logline.price,
                              logline.acct_id, logline.ts) >>,
              err |-> "none"]

\* def txn_handler_stateless(logline): a generator; nothing runs before the
\* first effect is asked for, and every KeyError comes before the first yield.
txn_handler_stateless(logline) ==
    IF ~get_common_fields_ok(logline) \/ "type" \notin DOMAIN logline
       \/ "price" \notin DOMAIN logline
    THEN [effs |-> <<>>, err |-> "KeyError"]
    ELSE LET dir_ == IF logline.type = "buy" THEN 1 ELSE -1
         IN  [effs |-> << Eff(logline.ticker, dir_ * logline.amt,
                              logline.acct_id, logline.ts),
                          Eff("CASH", (-1) * dir_ * logline.amt * logline.price,
                              logline.acct_id, logline.ts) >>,
              err |-> "none"]

Max(a, b) == IF a >= b THEN a ELSE b

\* T_handler_stateful as it would be if the effect used the counter after it
\* is raised
T_handler_counts_first(state, logline) ==
    IF ~get_common_fields_ok(logline)
    THEN [effs |-> <<>>, err |-> "KeyError", state |-> state]
    ELSE LET T_count == getattr(state, "T_count", 0) + 1
         IN  [effs |-> << Eff(logline.ticker, IF T_count >= logline.amt
                                              THEN T_count ELSE logline.amt,
                              logline.acct_id, logline.ts) >>,
              err |-> "none",
              state |-> setattr(state, "T_count", T_count)]

\* T_handler_stateful as it would be if it never wrote the counter back
T_handler_keeps_count(state, logline) ==
    IF ~get_common_fields_ok(logline)
    THEN [effs |-> <<>>, err |-> "KeyError", state |-> state]
    ELSE LET T_count == getattr(state, "T_count", 0)
         IN  [effs |-> << Eff(logline.ticker, Max(T_count, logline.amt),
                              logline.acct_id, logline.ts) >>,
              err |-> "none",
              state |-> state]

\* def T_handler_stateful(state, logline): a generator; the counter is raised
\* before the one effect is yielded.
T_handler_stateful(state, logline) ==
    IF ~get_common_fields_ok(logline)
    THEN [effs |-> <<>>, err |-> "KeyError", state |-> state]
    ELSE LET T_count == getattr(state, "T_count", 0)
         IN  [effs |-> << Eff(logline.ticker, Max(T_count, logline.amt),
                              logline.acct_id, logline.ts) >>,
              err |-> "none",
              state |-> setattr(state, "T_count", T_count + 1)]

\* The number of positional parameters of a handler's def line.
NParams(h) == IF h = "T_handler_stateful" THEN 2 ELSE 1

\* Calling handler h with one argument (logline) or with two (self, logline):
\* the arguments bind when their number is the number of parameters; otherwise
\* the call itself raises TypeError and no line of the handler runs.
Binds(h, nargs) == NParams(h) = nargs

\* The generator a bound call returns, run to its end.
Body(h, self, logline) ==
    IF h = "T_handler_stateful"
    THEN T_handler_stateful(self, logline)
    ELSE [effs |-> txn_handler_stateless(logline).effs,
          err |-> txn_handler_stateless(logline).err,
          state |-> self]

\* try: effects = handler(self, logline)
\* except TypeError: effects = handler(logline)
\* The calls made for entry j of the handler list of logline i.
Attempts(h, i, j) ==
    IF Binds(h, 2)
    THEN << [h |-> h, nargs |-> 2, bound |-> TRUE, i |-> i, j |-> j] >>
    ELSE << [h |-> h, nargs |-> 2, bound |-> FALSE, i |-> i, j |-> j],
            [h |-> h, nargs |-> 1, bound |-> Binds(h, 1), i |-> i, j |-> j] >>

\* The effects one handler call yields, each with where it comes from: logline
\* i, entry j of the handler list (handler h), k-th yield of that call.
Tagged(effs, i, j, h) ==
    [k \in 1..Len(effs) |-> [eff |-> effs[k], src |-> <<i, j, k>>, h |-> h]]

\* The effects of a stream, as the consumer gets them.
Effs(tagged) == [n \in 1..Len(tagged) |-> tagged[n].eff]

\* for handler in handlers: ... for effect in effects: yield effect
\* from handler j on; acc is what the loop has done so far.
RECURSIVE RunHandlers(_, _, _, _, _)
RunHandlers(hlist, j, logline, i, acc) ==
    IF j > Len(hlist) \/ acc.err # "none" THEN acc
    ELSE LET h == hlist[j]
             r == Body(h, acc.state, logline)
             tried == Attempts(h, i, j)
         IN  IF ~tried[Len(tried)].bound
             THEN [acc EXCEPT !.calls = acc.calls \o tried, !.err = "TypeError"]
             ELSE RunHandlers(hlist, j + 1, logline, i,
                     [effs |-> acc.effs \o Tagged(r.effs, i, j, h),
                      state |-> r.state,
                      calls |-> acc.calls \o tried,
                      err |-> r.err])

\* HandleLogline as it would be with logline.get('type'): a logline without a
\* type is treated as one of a type nobody handles
HandleLogline_get_type(hs, state, logline, i) ==
    IF "type" \notin DOMAIN logline
    THEN [effs |-> <<>>, state |-> state, calls |-> <<>>, err |-> "none"]
    ELSE RunHandlers(lookup(hs, logline.type), 1, logline, i,
             [effs |-> <<>>, state |-> state, calls |-> <<>>, err |-> "none"])

\* HandleLogline as it would be with self._handlers[event_type] on a plain
\* dict: a type nobody handles raises KeyError
HandleLogline_strict(hs, state, logline, i) ==
    IF "type" \notin DOMAIN logline \/ logline.type \notin DOMAIN hs
    THEN [effs |-> <<>>, state |-> state, calls |-> <<>>, err |-> "KeyError"]
    ELSE RunHandlers(lookup(hs, logline.type), 1, logline, i,
             [effs |-> <<>>, state |-> state, calls |-> <<>>, err |-> "none"])

\* One pass of `for logline in loglines` in EffPipeline.run: logline number i.
HandleLogline(hs, state, logline, i) ==
    IF "type" \notin DOMAIN logline
    THEN [effs |-> <<>>, state |-> state, calls |-> <<>>, err |-> "KeyError"]
    ELSE RunHandlers(lookup(hs, logline.type), 1, logline, i,
             [effs |-> <<>>, state |-> state, calls |-> <<>>, err |-> "none"])

\* list(pipeline.run(loglines)) from logline number i on; acc is what the run
\* has done so far.
RECURSIVE RunAll(_, _, _, _)
RunAll(hs, loglines, i, acc) ==
    IF i > Len(loglines) \/ acc.err # "none" THEN acc
    ELSE LET r == HandleLogline(hs, acc.state, loglines[i], i)
         IN  RunAll(hs, loglines, i + 1,
                 [effs |-> acc.effs \o r.effs, state |-> r.state,
                  calls |-> acc.calls \o r.calls, err |-> r.err])

\* EffPipeline()
EffPipeline == EmptyDict

\* update_pipeline_w_acct_state as it would be if every pipeline began at 0
update_pipeline_from_zero(p, acct) == setattr(p, "T_count", 0)

\* def update_pipeline_w_acct_state(pipeline, acct)
update_pipeline_w_acct_state(p, acct) == setattr(p, "T_count", acct.T_count)

\* A mapping from tickers to balances: a plain dict, or a defaultdict(int),
\* which makes an absent key 0 when it is read.
Mapping(kind, d) == [kind |-> kind, d |-> d]
DefaultDict(d) == Mapping("defaultdict", d)
\* state=None
NoMapping == Mapping("None", EmptyDict)

\* AccountState(T_count, posns): posns_ = defaultdict(int); posns_.update(posns)
AccountState(T_count, posns) == [T_count |-> T_count, posns |-> DefaultDict(posns)]

\* AddEff as it would be with state[eff.ticker] = eff.amt
AddEff_overwrite(state, eff) ==
    IF eff.ticker \in DOMAIN state.d \/ state.kind = "defaultdict"
    THEN [state |-> [state EXCEPT !.d = [t \in (DOMAIN state.d) \cup {eff.ticker} |->
                                             IF t = eff.ticker THEN eff.amt
                                             ELSE state.d[t]]],
          err |-> "none"]
    ELSE [state |-> state, err |-> "KeyError"]

\* state[eff.ticker] += eff.amt
AddEff(state, eff) ==
    IF eff.ticker \in DOMAIN state.d
    THEN [state |-> [state EXCEPT !.d[eff.ticker] = @ + eff.amt], err |-> "none"]
    ELSE IF state.kind = "defaultdict"
    THEN [state |-> [state EXCEPT !.d = [t \in (DOMAIN state.d) \cup {eff.ticker} |->
                                             IF t = eff.ticker THEN 0 + eff.amt
                                             ELSE state.d[t]]],
          err |-> "none"]
    ELSE [state |-> state, err |-> "KeyError"]

\* for eff in effs: state[eff.ticker] += eff.amt, from effect n on
RECURSIVE FoldFrom(_, _, _)
FoldFrom(effs, n, acc) ==
    IF n > Len(effs) \/ acc.err # "none" THEN acc
    ELSE FoldFrom(effs, n + 1, AddEff(acc.state, effs[n]))

\* run_acct_effs as it would be if it always started from a new defaultdict
run_acct_effs_fresh(effs, state) ==
    FoldFrom(effs, 1, [state |-> DefaultDict(EmptyDict), err |-> "none"])

\* def run_acct_effs(effs, state=None): the mapping it returns, or the
\* mapping as the KeyError leaves it
run_acct_effs(effs, state) ==
    FoldFrom(effs, 1,
        [state |-> IF state.kind = "None" THEN DefaultDict(EmptyDict) ELSE state,
         err |-> "none"])

\* state[ticker] read without changing the mapping: 0 for an absent key
Balance(state, ticker) == IF ticker \in DOMAIN state.d THEN state.d[ticker] ELSE 0

(***************************************************************************)
(* The pipeline as a library: handle() calls, then one run.                *)
(***************************************************************************)
Init ==
    /\ pc = "load"
    /\ handlers = handle_all(EmptyDict, LoadedRegs)
    /\ reg_log = LoadedRegs
    /\ pipeline = EffPipeline
    /\ pipeline0 = EffPipeline
    /\ key = 0
    /\ consumed = <<>>
    /\ emitted = <<>>
    /\ calls = <<>>
    /\ tc_hist = <<>>
    /\ err = "none"
    /\ f_seed = NoMapping
    /\ f_effs2 = <<>>
    /\ f_effs = <<>>
    /\ f_mid = [state |-> NoMapping, err |-> "none"]
    /\ f_out = [state |-> NoMapping, err |-> "none"]
    /\ acct_states = EmptyDict
    /\ acct_state = AccountState(0, EmptyDict)
    /\ pending = <<>>
    /\ log = <<>>
    /\ store0 = EmptyDict
    /\ RestIdle

\* EffPipeline.handle(event_type)(f)
Register(event_type, f) ==
    /\ pc = "load"
    /\ Len(reg_log) < Len(LoadedRegs) + MaxRegs
    /\ handlers' = handle(handlers, event_type, f)
    /\ reg_log' = Append(reg_log, [type |-> event_type, h |-> f])
    /\ UNCHANGED <<pc, pipeline, pipeline0, key, consumed, emitted, calls, tc_hist, err>>
    /\ UNCHANGED <<fold_vars, drv_vars, wrk_vars, sen_vars>>

\* eff_pipeline = EffPipeline(), left as it is (test_T_handler) or given an
\* account's counter (the driver); run(loglines) is then called on it.
NewPipeline(acct_id, sync, c) ==
    /\ pc = "load"
    /\ pipeline' = IF sync
                   THEN update_pipeline_w_acct_state(EffPipeline, AccountState(c, EmptyDict))
                   ELSE EffPipeline
    /\ pipeline0' = pipeline'
    /\ key' = acct_id
    /\ pc' = "run"
    /\ UNCHANGED <<handlers, reg_log, consumed, emitted, calls, tc_hist, err>>
    /\ UNCHANGED <<fold_vars, drv_vars, wrk_vars, sen_vars>>

\* The consumer asks run for effects until the next logline is done with.
RunStep(s) ==
    /\ pc = "run"
    /\ Len(consumed) < MaxEvents
    /\ LET i == Len(consumed) + 1
           logline == MakeLogline(s, key, i)
           r == HandleLogline(handlers, pipeline, logline, i)
       IN  /\ consumed' = Append(consumed, logline)
           /\ tc_hist' = Append(tc_hist, getattr(pipeline, "T_count", 0))
           /\ emitted' = emitted \o r.effs
           /\ calls' = calls \o r.calls
           /\ pipeline' = r.state
           /\ err' = r.err
           /\ pc' = IF r.err = "none" THEN "run" ELSE "failed"
    /\ UNCHANGED <<handlers, reg_log, pipeline0, key>>
    /\ UNCHANGED <<fold_vars, drv_vars, wrk_vars, sen_vars>>

Next ==
    \/ \E t \in RegTypes, f \in HandlerNames : Register(t, f)
    \/ \E a \in Accts, sync \in BOOLEAN, c \in StartCounts : NewPipeline(a, sync, c)
    \/ \E s \in Shapes : RunStep(s)

Spec == Init /\ [][Next]_vars

(***************************************************************************)
(* run_acct_effs called twice, the second call given what the first        *)
(* returned.                                                               *)
(***************************************************************************)
FoldTickers == {"AAPL", "CASH"}
FoldAmts == {-1, 2}
SeedBalance == 5
FoldEffs == {Eff(t, a, 1, 1) : t \in FoldTickers, a \in FoldAmts}
SeqsUpTo(S, n) == UNION {[1..m -> S] : m \in 0..n}
\* None, and plain dicts and defaultdicts that hold some of the tickers
Seeds ==
    {NoMapping} \cup
    {Mapping(k, [t \in D |-> SeedBalance]) :
        k \in {"dict", "defaultdict"}, D \in SUBSET FoldTickers}

InitFold ==
    /\ pc = "fold"
    /\ handlers = handle_all(EmptyDict, LoadedRegs)
    /\ reg_log = LoadedRegs
    /\ pipeline = EffPipeline
    /\ pipeline0 = EffPipeline
    /\ key = 0
    /\ consumed = <<>>
    /\ emitted = <<>>
    /\ calls = <<>>
    /\ tc_hist = <<>>
    /\ err = "none"
    /\ f_seed \in Seeds
    /\ f_effs2 \in SeqsUpTo(FoldEffs, MaxFoldLen)
    /\ f_effs \in SeqsUpTo(FoldEffs, MaxFoldLen)
    /\ f_mid = [state |-> NoMapping, err |-> "none"]
    /\ f_out = [state |-> NoMapping, err |-> "none"]
    /\ acct_states = EmptyDict
    /\ acct_state = AccountState(0, EmptyDict)
    /\ pending = <<>>
    /\ log = <<>>
    /\ store0 = EmptyDict
    /\ RestIdle

\* state = run_acct_effs(effs2, seed)
FoldFirst ==
    /\ pc = "fold"
    /\ f_mid' = run_acct_effs(f_effs2, f_seed)
    /\ pc' = "fold2"
    /\ UNCHANGED <<handlers, reg_log, pipeline, pipeline0, key, consumed, emitted,
                   calls, tc_hist, err, f_seed, f_effs2, f_effs, f_out>>
    /\ UNCHANGED <<drv_vars, wrk_vars, sen_vars>>

\* state = run_acct_effs(effs, state); a KeyError of the first call leaves
\* the second one uncalled
FoldSecond ==
    /\ pc = "fold2"
    /\ f_out' = IF f_mid.err = "none" THEN run_acct_effs(f_effs, f_mid.state) ELSE f_mid
    /\ pc' = "folded"
    /\ UNCHANGED <<handlers, reg_log, pipeline, pipeline0, key, consumed, emitted,
                   calls, tc_hist, err, f_seed, f_effs2, f_effs, f_mid>>
    /\ UNCHANGED <<drv_vars, wrk_vars, sen_vars>>

NextFold == FoldFirst \/ FoldSecond

SpecFold == InitFold /\ [][NextFold]_vars

(***************************************************************************)
(* The __main__ driver: groupby over the loglines, and per partition the   *)
(* account's state fetched or made, a new pipeline given its counter, the  *)
(* effects of the run folded into posns, the counter copied back, the      *)
(* state stored.                                                           *)
(***************************************************************************)

\* update_acct_w_pipeline_state as it would be if it copied nothing back
update_acct_keeps_count(p, acct) == acct

\* def update_acct_w_pipeline_state(pipeline, acct)
update_acct_w_pipeline_state(p, acct) == [acct EXCEPT !.T_count = p.T_count]

\* get_or_default as it would be if a new account began from the state of an
\* account already stored
get_or_shared(states, acct_id) ==
    IF acct_id \in DOMAIN states THEN states[acct_id]
    ELSE IF DOMAIN states # {} THEN states[CHOOSE a \in DOMAIN states : TRUE]
    ELSE AccountState(0, EmptyDict)

\* acct_states.get(acct_id, AccountState())
get_or_default(states, acct_id) ==
    IF acct_id \in DOMAIN states THEN states[acct_id] ELSE AccountState(0, EmptyDict)

\* put as it would be if one state object were stored under every account
put_everywhere(states, acct_id, acct) ==
    [a \in (DOMAIN states) \cup {acct_id} |-> acct]

\* acct_states[acct_id] = acct
put(states, acct_id, acct) ==
    [a \in (DOMAIN states) \cup {acct_id} |-> IF a = acct_id THEN acct ELSE states[a]]

\* aliased as it would be if acct_states.get returned a copy
aliased_copy(states, acct_id, acct) == states

\* acct_state is the very object held in acct_states when the account was
\* found there: what is done to it shows in acct_states at once.
aliased(states, acct_id, acct) ==
    IF acct_id \in DOMAIN states THEN put(states, acct_id, acct) ELSE states

\* The loglines of __main__.
MainLoglines ==
    << [ticker |-> "GOOG", type |-> "buy", amt |-> 4, acct_id |-> 1, ts |-> 1, price |-> 640],
       [ticker |-> "AAPL", type |-> "T", amt |-> 5, acct_id |-> 1, ts |-> 2],
       [ticker |-> "AAPL", type |-> "T", amt |-> 30, acct_id |-> 1, ts |-> 3],
       [ticker |-> "AAPL", type |-> "T", amt |-> 4, acct_id |-> 1, ts |-> 4],
       [ticker |-> "GOOG", type |-> "buy", amt |-> 4, acct_id |-> 2, ts |-> 1, price |-> 700],
       [ticker |-> "MS", type |-> "sell", amt |-> 4, acct_id |-> 2, ts |-> 1, price |-> 400] >>
MainInputs == {MainLoglines[n] : n \in 1..Len(MainLoglines)}

\* acct_states = {1: acct_with_state}
MainAcctStates ==
    [a \in {1} |-> AccountState(4, [t \in {"AAPL", "CASH"} |-> IF t = "AAPL" THEN 14 ELSE 10])]

\* final_states
MainFinalStates ==
    [a \in {1, 2} |->
        IF a = 1
        THEN AccountState(4 + 3,
                 [t \in {"AAPL", "GOOG", "CASH"} |->
                     IF t = "AAPL" THEN 14 + 5 + 30 + 6
                     ELSE IF t = "GOOG" THEN 4
                     ELSE 10 + (0 - 4) * 640])
        ELSE AccountState(0,
                 [t \in {"GOOG", "MS", "CASH"} |->
                     IF t = "GOOG" THEN 4
                     ELSE IF t = "MS" THEN 0 - 4
                     ELSE (0 - 4) * 700 + 4 * 400])]

InitMain ==
    /\ pc = "loop"
    /\ handlers = handle_all(EmptyDict, LoadedRegs)
    /\ reg_log = LoadedRegs
    /\ pipeline = EffPipeline
    /\ pipeline0 = EffPipeline
    /\ key = 0
    /\ consumed = <<>>
    /\ emitted = <<>>
    /\ calls = <<>>
    /\ tc_hist = <<>>
    /\ err = "none"
    /\ f_seed = NoMapping
    /\ f_effs2 = <<>>
    /\ f_effs = <<>>
    /\ f_mid = [state |-> NoMapping, err |-> "none"]
    /\ f_out = [state |-> NoMapping, err |-> "none"]
    /\ acct_states = MainAcctStates
    /\ acct_state = AccountState(0, EmptyDict)
    /\ pending = <<>>
    /\ log = <<>>
    /\ store0 = MainAcctStates
    /\ RestIdle

\* What the next read of the input gives when `bound` loglines at most are
\* there: a logline of `inputs`, each as a one-element list.
Reads(inputs, bound) ==
    IF Len(log) < bound THEN {<<l>> : l \in inputs} ELSE {}

\* for acct_id, acct_loglines in groupby(...): the next group begins with the
\* logline read ahead, or with the first logline of the input;
\* acct_state = acct_states.get(acct_id, AccountState());
\* eff_pipeline = EffPipeline(); update_pipeline_w_acct_state(...);
\* effs = eff_pipeline.run(acct_loglines)
BeginPartition(inputs, bound) ==
    /\ pc = "loop"
    /\ \E first \in (IF pending # <<>> THEN {pending} ELSE Reads(inputs, bound)) :
         LET acct_id == first[1].acct_id
             acct == get_or_default(acct_states, acct_id)
         IN  /\ key' = acct_id
             /\ acct_state' = acct
             /\ pipeline' = update_pipeline_w_acct_state(EffPipeline, acct)
             /\ pipeline0' = pipeline'
             /\ pending' = first
             /\ log' = IF pending # <<>> THEN log ELSE log \o first
    /\ store0' = acct_states
    /\ consumed' = <<>>
    /\ emitted' = <<>>
    /\ calls' = <<>>
    /\ tc_hist' = <<>>
    /\ pc' = "part"
    /\ UNCHANGED <<handlers, reg_log, err, acct_states, fold_vars, wrk_vars, sen_vars>>

\* run_acct_effs asks run for the effects of one more logline of the group
\* (the one read ahead, or the next of the input when it has the group's
\* acct_id) and adds each to acct_state.posns as it is yielded.
PartitionStep(inputs, bound) ==
    /\ pc = "part"
    /\ \E next \in (IF pending # <<>> THEN {pending}
                    ELSE {r \in Reads(inputs, bound) : r[1].acct_id = key}) :
         LET i == Len(consumed) + 1
             r == HandleLogline(handlers, pipeline, next[1], i)
             folded == FoldFrom(Effs(r.effs), 1, [state |-> acct_state.posns, err |-> "none"])
             acct == [acct_state EXCEPT !.posns = folded.state]
         IN  /\ consumed' = Append(consumed, next[1])
             /\ tc_hist' = Append(tc_hist, getattr(pipeline, "T_count", 0))
             /\ emitted' = emitted \o r.effs
             /\ calls' = calls \o r.calls
             /\ pipeline' = r.state
             /\ acct_state' = acct
             /\ acct_states' = aliased(acct_states, key, acct)
             /\ err' = IF folded.err # "none" THEN folded.err ELSE r.err
             /\ pc' = IF err' = "none" THEN "part" ELSE "failed"
             /\ log' = IF pending # <<>> THEN log ELSE log \o next
    /\ pending' = <<>>
    /\ UNCHANGED <<handlers, reg_log, pipeline0, key, store0, fold_vars, wrk_vars, sen_vars>>

\* The group ends: the input is exhausted (ahead = <<>>) or its next logline
\* has another acct_id and is kept for the next group. run returns,
\* acct_state.posns = run_acct_effs(effs, acct_state.posns) is assigned,
\* update_acct_w_pipeline_state(eff_pipeline, acct_state),
\* acct_states[acct_id] = acct_state.
EndPartition(inputs, bound) ==
    /\ pc = "part"
    /\ pending = <<>>
    /\ \E ahead \in {<<>>} \cup {r \in Reads(inputs, bound) : r[1].acct_id # key} :
         /\ pending' = ahead
         /\ log' = log \o ahead
         /\ pc' = IF ahead = <<>> THEN "done" ELSE "loop"
    /\ acct_state' = update_acct_w_pipeline_state(pipeline, acct_state)
    /\ acct_states' = put(acct_states, key, acct_state')
    /\ UNCHANGED <<handlers, reg_log, pipeline, pipeline0, key, consumed, emitted,
                   calls, tc_hist, err, store0, fold_vars, wrk_vars, sen_vars>>

\* An input without loglines: the for loop has nothing to do.
NoLoglines ==
    /\ pc = "loop"
    /\ log = <<>>
    /\ pc' = "done"
    /\ UNCHANGED <<handlers, reg_log, pipeline, pipeline0, key, consumed, emitted,
                   calls, tc_hist, err, fold_vars, drv_vars, wrk_vars, sen_vars>>

NextMain ==
    \/ BeginPartition(MainInputs, MaxMainLog)
    \/ PartitionStep(MainInputs, MaxMainLog)
    \/ EndPartition(MainInputs, MaxMainLog)
    \/ NoLoglines

SpecMain == InitMain /\ [][NextMain]_vars

(***************************************************************************)
(* The same driver loop over any short input: loglines of two accounts,    *)
(* one of them in acct_states already, some of a type nobody handles and   *)
(* some that make the pipeline raise; the registry is populated before the *)
(* loop starts, as the module loads it or with txn_handler_stateless       *)
(* registered for 'T' as well.                                             *)
(***************************************************************************)
MaxDrvLog == 4      \* loglines in the input of the driver

DrvShapes ==
    { [type |-> "T", ticker |-> "AAPL", amt |-> 0, drop |-> "none"],
      [type |-> "buy", ticker |-> "AAPL", amt |-> 2, drop |-> "none"],
      [type |-> "T", ticker |-> "AAPL", amt |-> 0, drop |-> "ticker"],
      [type |-> "X", ticker |-> "AAPL", amt |-> 2, drop |-> "none"] }
DrvInputs ==
    {MakeLogline(sh, a, 1) : sh \in DrvShapes, a \in Accts}
    \ {MakeLogline(sh, 2, 1) : sh \in {x \in DrvShapes : x.type = "X"}}

\* acct_states before the loop: account 1 is there, account 2 is not
DrvAcctStates ==
    [a \in {1} |-> AccountState(1, [t \in {"AAPL"} |-> SeedBalance])]

\* the handle() calls made before the loop starts
DrvRegistries ==
    { LoadedRegs,
      Append(LoadedRegs, [type |-> "T", h |-> "txn_handler_stateless"]) }

InitDriver ==
    /\ pc = "loop"
    /\ reg_log \in DrvRegistries
    /\ handlers = handle_all(EmptyDict, reg_log)
    /\ pipeline = EffPipeline
    /\ pipeline0 = EffPipeline
    /\ key = 0
    /\ consumed = <<>>
    /\ emitted = <<>>
    /\ calls = <<>>
    /\ tc_hist = <<>>
    /\ err = "none"
    /\ f_seed = NoMapping
    /\ f_effs2 = <<>>
    /\ f_effs = <<>>
    /\ f_mid = [state |-> NoMapping, err |-> "none"]
    /\ f_out = [state |-> NoMapping, err |-> "none"]
    /\ acct_states = DrvAcctStates
    /\ acct_state = AccountState(0, EmptyDict)
    /\ pending = <<>>
    /\ log = <<>>
    /\ store0 = DrvAcctStates
    /\ RestIdle

NextDriver ==
    \/ BeginPartition(DrvInputs, MaxDrvLog)
    \/ PartitionStep(DrvInputs, MaxDrvLog)
    \/ EndPartition(DrvInputs, MaxDrvLog)
    \/ NoLoglines

SpecDriver == InitDriver /\ [][NextDriver]_vars

\* One iteration of the loop as one step: the account's state fetched or
\* made, a new pipeline given its counter, all the loglines run and folded,
\* the counter copied back. The state to store, and how the run ended.
Cycle(states, acct_id, loglines) ==
    LET acct == get_or_default(states, acct_id)
        p == update_pipeline_w_acct_state(EffPipeline, acct)
        r == RunAll(handlers, loglines, 1,
                    [effs |-> <<>>, state |-> p, calls |-> <<>>, err |-> "none"])
        folded == run_acct_effs(Effs(r.effs), acct.posns)
    IN  [acct |-> update_acct_w_pipeline_state(r.state,
                      [acct EXCEPT !.posns = folded.state]),
         err |-> IF folded.err # "none" THEN folded.err ELSE r.err]

(***************************************************************************)
(* The loop body run by one worker per account, the workers' steps         *)
(* interleaved in any order: each worker fetches or makes its account's    *)
(* state, makes its own pipeline, runs the account's loglines in order and *)
(* stores the state; acct_states and the registry are shared.              *)
(***************************************************************************)
MaxPartLen == 2     \* loglines in the partition of one account

WrkShapes == {sh \in DrvShapes : sh.type # "X"}

\* the partition of account a made of the given shapes, ts being the place
Partition(a, shs) == [n \in 1..Len(shs) |-> MakeLogline(shs[n], a, n)]

\* a worker that has not begun
Worker == [pc |-> "idle", acct_state |-> AccountState(0, EmptyDict),
           pipeline |-> EffPipeline, i |-> 0, overlapped |-> FALSE]

\* another worker is in the middle of its partition
Overlaps(a) == \E b \in (DOMAIN workers) \ {a} : workers[b].pc = "part"

InitWorkers ==
    /\ pc = "workers"
    /\ reg_log \in DrvRegistries
    /\ handlers = handle_all(EmptyDict, reg_log)
    /\ pipeline = EffPipeline
    /\ pipeline0 = EffPipeline
    /\ key = 0
    /\ consumed = <<>>
    /\ emitted = <<>>
    /\ calls = <<>>
    /\ tc_hist = <<>>
    /\ err = "none"
    /\ f_seed = NoMapping
    /\ f_effs2 = <<>>
    /\ f_effs = <<>>
    /\ f_mid = [state |-> NoMapping, err |-> "none"]
    /\ f_out = [state |-> NoMapping, err |-> "none"]
    /\ acct_states = DrvAcctStates
    /\ acct_state = AccountState(0, EmptyDict)
    /\ pending = <<>>
    /\ log = <<>>
    /\ store0 = DrvAcctStates
    /\ workers = [a \in Accts |-> Worker]
    /\ parts \in {[a \in Accts |-> Partition(a, shs[a])] :
                     shs \in [Accts -> SeqsUpTo(WrkShapes, MaxPartLen)]}
    /\ sentinel = NoSentinel
    /\ ops = <<>>

\* acct_state = acct_states.get(acct_id, AccountState());
\* eff_pipeline = EffPipeline(); update_pipeline_w_acct_state(...)
WorkerBegin(a) ==
    /\ pc = "workers"
    /\ workers[a].pc = "idle"
    /\ LET acct == get_or_default(acct_states, a)
       IN  workers' = [workers EXCEPT ![a] =
               [pc |-> "part", acct_state |-> acct,
                pipeline |-> update_pipeline_w_acct_state(EffPipeline, acct),
                i |-> 0, overlapped |-> Overlaps(a)]]
    /\ UNCHANGED <<pipe_vars, fold_vars, drv_vars, parts, sen_vars>>

\* run_acct_effs asks the worker's run for the effects of the next logline of
\* its partition and adds each to acct_state.posns
WorkerStep(a) ==
    /\ pc = "workers"
    /\ workers[a].pc = "part"
    /\ workers[a].i < Len(parts[a])
    /\ LET w == workers[a]
           r == HandleLogline(handlers, w.pipeline, parts[a][w.i + 1], w.i + 1)
           folded == FoldFrom(Effs(r.effs), 1, [state |-> w.acct_state.posns, err |-> "none"])
           acct == [w.acct_state EXCEPT !.posns = folded.state]
           failed == folded.err # "none" \/ r.err # "none"
       IN  /\ workers' = [workers EXCEPT ![a] =
                   [pc |-> IF failed THEN "failed" ELSE "part",
                    acct_state |-> acct, pipeline |-> r.state, i |-> w.i + 1,
                    overlapped |-> w.overlapped \/ Overlaps(a)]]
           /\ acct_states' = aliased(acct_states, a, acct)
    /\ UNCHANGED <<pipe_vars, fold_vars, acct_state, pending, log, store0, parts, sen_vars>>

\* the partition is exhausted: update_acct_w_pipeline_state(eff_pipeline,
\* acct_state); acct_states[acct_id] = acct_state
WorkerEnd(a) ==
    /\ pc = "workers"
    /\ workers[a].pc = "part"
    /\ workers[a].i = Len(parts[a])
    /\ LET w == workers[a]
           acct == update_acct_w_pipeline_state(w.pipeline, w.acct_state)
       IN  /\ workers' = [workers EXCEPT ![a] =
                   [w EXCEPT !.pc = "stored", !.acct_state = acct,
                             !.overlapped = w.overlapped \/ Overlaps(a)]]
           /\ acct_states' = put(acct_states, a, acct)
    /\ UNCHANGED <<pipe_vars, fold_vars, acct_state, pending, log, store0, parts, sen_vars>>

NextWorkers ==
    \/ \E a \in Accts : WorkerBegin(a)
    \/ \E a \in Accts : WorkerStep(a)
    \/ \E a \in Accts : WorkerEnd(a)

SpecWorkers == InitWorkers /\ [][NextWorkers]_vars

\* The accounts processed one after another in the given order, each by one
\* iteration of the loop over its partition: the store at the end.
RECURSIVE OneAfterAnother(_, _)
OneAfterAnother(order, states) ==
    IF order = <<>> THEN states
    ELSE OneAfterAnother(Tail(order),
             put(states, Head(order), Cycle(states, Head(order), parts[Head(order)]).acct))

(***************************************************************************)
(* state_sentinel_mock.py: StateSentinel(cls) makes a class whose          *)
(* instances are built by cls.__init__, then guarded: __setattr__ raises   *)
(* and __getattribute__ logs the reads of the names it finds `in`          *)
(* __slots__. The wrapped class is MyState of __main__, with __slots__     *)
(* the string it is there, the tuple of that name, or not declared.        *)
(***************************************************************************)
MaxOps == 3         \* reads, assignments and calls made on one sentinel

\* An attribute name letter by letter: `in` between two strings looks for
\* the one inside the other.
Chars(name) ==
    CASE name = "state_var" ->
             <<"s", "t", "a", "t", "e", "_", "v", "a", "r">>
      [] name = "stat_var" ->
             <<"s", "t", "a", "t", "_", "v", "a", "r">>
      [] name = "state" ->
             <<"s", "t", "a", "t", "e">>
      [] name = "update_state" ->
             <<"u", "p", "d", "a", "t", "e", "_", "s", "t", "a", "t", "e">>
      [] name = "guard_state" ->
             <<"g", "u", "a", "r", "d", "_", "s", "t", "a", "t", "e">>
      [] name = "__dict__" ->
             <<"_", "_", "d", "i", "c", "t", "_", "_">>
      [] name = "_attr_accesses" ->
             <<"_", "a", "t", "t", "r", "_", "a", "c", "c", "e", "s", "s", "e", "s">>
      [] name = "_attr_access_order" ->
             <<"_", "a", "t", "t", "r", "_", "a", "c", "c", "e", "s", "s", "_", "o", "r", "d", "e", "r">>
      [] name = "assert_accessed_times" ->
             <<"a", "s", "s", "e", "r", "t", "_", "a", "c", "c", "e", "s", "s", "e", "d", "_", "t", "i", "m", "e", "s">>
      [] name = "assert_access_order" ->
             <<"a", "s", "s", "e", "r", "t", "_", "a", "c", "c", "e", "s", "s", "_", "o", "r", "d", "e", "r">>
      [] name = "other" ->
             <<"o", "t", "h", "e", "r">>

\* needle in hay, both strings
str_in(needle, hay) ==
    \E k \in 0..(Len(hay) - Len(needle)) : SubSeq(hay, k + 1, k + Len(needle)) = needle

\* __slots__ = ('state_var') is the string 'state_var'
StrSlots == [kind |-> "str", names |-> <<"state_var">>]
\* __slots__ = ('state_var',)
TupleSlots == [kind |-> "tuple", names |-> <<"state_var">>]
\* a class without __slots__
NoSlots == [kind |-> "none", names |-> <<>>]
SlotDecls == {StrSlots, TupleSlots, NoSlots}

\* attr in x, x a string or a tuple of strings
py_in(attr, x) ==
    IF x.kind = "str"
    THEN str_in(Chars(attr), Chars(x.names[1]))
    ELSE \E n \in 1..Len(x.names) : x.names[n] = attr

\* The slots of a class: a string for __slots__ declares the one slot of that
\* name.
SlotNames(cls) == {cls.names[n] : n \in 1..Len(cls.names)}

\* what every instance finds on its classes
ClassAttrs ==
    {"guard_state", "update_state", "assert_accessed_times", "assert_access_order",
     "__dict__"}

logging_attrs == {"_attr_accesses", "_attr_access_order"}
assertion_methods == {"assert_accessed_times", "assert_access_order"}

\* object.__new__(cls)
NewObject(cls) == [NoSentinel EXCEPT !.cls = cls]

\* object.__getattribute__(self, attr) finds the attribute: a slot when it is
\* set, else a key of __dict__, else an attribute of the classes.
object_has(obj, attr) ==
    IF attr \in SlotNames(obj.cls)
    THEN attr \in DOMAIN obj.slot
    ELSE attr \in obj.keys \cup ClassAttrs

\* the value object.__getattribute__(self, 'guard_state') gives: the
\* instance's own, else the class attribute guard_state = False
guard(obj) == IF "guard_state" \in obj.keys THEN obj.guard_state ELSE FALSE

\* the value of an int attribute that is there
int_value(obj, attr) ==
    IF attr \in SlotNames(obj.cls) THEN obj.slot[attr] ELSE obj.ints[attr]

\* counter[attr] += 1 on a Counter
Incr(counter, attr) ==
    [k \in (DOMAIN counter) \cup {attr} |->
        IF k = attr THEN (IF k \in DOMAIN counter THEN counter[k] ELSE 0) + 1
        ELSE counter[k]]

\* def __getattribute__(self, attr): the object after the read, and the
\* exception the read raises. _getattr(self, '__slots__', (attr)) is the
\* class's __slots__, or the string attr when the class declares none.
__getattribute__(obj, attr) ==
    LET is_logging == attr \in logging_attrs \cup assertion_methods
        slots == IF obj.cls.kind = "none"
                 THEN [kind |-> "str", names |-> <<attr>>]
                 ELSE obj.cls
        in_slots == py_in(attr, slots)
    IN  IF ~is_logging /\ in_slots
        THEN IF "_attr_accesses" \notin obj.keys
             THEN [obj |-> obj, err |-> "AttributeError"]
             ELSE LET counted == [obj EXCEPT !._attr_accesses = Incr(@, attr)]
                  IN  IF "_attr_access_order" \notin obj.keys
                      THEN [obj |-> counted, err |-> "AttributeError"]
                      ELSE [obj |-> [counted EXCEPT !._attr_access_order = Append(@, attr)],
                            err |-> IF object_has(obj, attr) THEN "none"
                                    ELSE "AttributeError"]
        ELSE [obj |-> obj,
              err |-> IF object_has(obj, attr) THEN "none" ELSE "AttributeError"]

\* dict.__setattr__(self, attr, value): into the slot of that name, else
\* into __dict__
object_setattr(obj, attr, value) ==
    IF attr \in SlotNames(obj.cls)
    THEN [obj EXCEPT !.slot = setattr(obj.slot, attr, value)]
    ELSE IF attr \in {"guard_state", "_attr_accesses", "_attr_access_order"}
    THEN [obj EXCEPT !.keys = @ \cup {attr}, ![attr] = value]
    ELSE [obj EXCEPT !.keys = @ \cup {attr}, !.ints = setattr(obj.ints, attr, value)]

\* def __setattr__(self, attr, value): self.guard_state and self.__dict__
\* are read through __getattribute__.
__setattr__(obj, attr, value) ==
    LET g == __getattribute__(obj, "guard_state")
        d == __getattribute__(g.obj, "__dict__")
    IN  IF g.err # "none" THEN [obj |-> g.obj, err |-> g.err, msg |-> ""]
        ELSE IF ~guard(g.obj)
        THEN [obj |-> object_setattr(g.obj, attr, value), err |-> "none", msg |-> ""]
        ELSE IF d.err # "none" THEN [obj |-> d.obj, err |-> d.err, msg |-> ""]
        ELSE IF attr \notin d.obj.keys
        THEN [obj |-> d.obj, err |-> "AssertionError",
              msg |-> "Attemped to add new attribute to state!"]
        ELSE [obj |-> d.obj, err |-> "AssertionError",
              msg |-> "Attempted to modify state!"]

\* MyState.__init__(self, state_var): self.state_var = state_var
MyState_init(obj, state_var) == __setattr__(obj, "state_var", state_var)

\* MyState.update_state(self, update): self.state_var += update
MyState_update_state(obj, update) ==
    LET r == __getattribute__(obj, "state_var")
    IN  IF r.err # "none" THEN [obj |-> r.obj, err |-> r.err, msg |-> ""]
        ELSE __setattr__(r.obj, "state_var", int_value(r.obj, "state_var") + update)

\* _StateSentinelMixin.__init__(self)
Mixin_init(obj) ==
    LET a == __setattr__(obj, "_attr_accesses", EmptyDict)
    IN  IF a.err # "none" THEN a
        ELSE __setattr__(a.obj, "_attr_access_order", <<>>)

\* StateSentinel(cls)(state_var): _AppliedStateSentinel.__init__ on a new
\* object; `at` is the line of it that raised.
StateSentinel(cls, state_var) ==
    LET a == MyState_init(NewObject(cls), state_var)
        b == Mixin_init(a.obj)
        c == __setattr__(b.obj, "guard_state", TRUE)
    IN  IF a.err # "none" THEN [obj |-> a.obj, err |-> a.err, at |-> "cls.__init__"]
        ELSE IF b.err # "none"
        THEN [obj |-> b.obj, err |-> b.err, at |-> "_StateSentinelMixin.__init__"]
        ELSE [obj |-> c.obj, err |-> c.err, at |-> "self.guard_state = True"]

\* self._attr_accesses.get(attr, 0) == n, the method and the Counter read
\* through __getattribute__
assert_accessed_times(obj, attr, n) ==
    LET m == __getattribute__(obj, "assert_accessed_times")
        a == __getattribute__(m.obj, "_attr_accesses")
    IN  IF m.err # "none" THEN m
        ELSE IF a.err # "none" THEN a
        ELSE [obj |-> a.obj,
              err |-> IF getattr(a.obj._attr_accesses, attr, 0) = n THEN "none"
                      ELSE "AssertionError"]

\* self._attr_access_order == access_order
assert_access_order(obj, access_order) ==
    LET m == __getattribute__(obj, "assert_access_order")
        a == __getattribute__(m.obj, "_attr_access_order")
    IN  IF m.err # "none" THEN m
        ELSE IF a.err # "none" THEN a
        ELSE [obj |-> a.obj,
              err |-> IF a.obj._attr_access_order = access_order THEN "none"
                      ELSE "AssertionError"]

\* the names read and assigned, and the value assigned to each
ReadNames ==
    {"state_var", "stat_var", "state", "update_state", "guard_state",
     "_attr_accesses", "_attr_access_order"}
AssignNames == {"state_var", "other", "guard_state"}
AssignValue(attr) == IF attr = "guard_state" THEN FALSE ELSE 5

\* one entry of ops
Op(op, attr, before, r) ==
    [op |-> op, attr |-> attr, err |-> r.err, before |-> before, after |-> r.obj]

InitSentinel ==
    /\ pc = "wrap"
    /\ handlers = handle_all(EmptyDict, LoadedRegs)
    /\ reg_log = LoadedRegs
    /\ pipeline = EffPipeline
    /\ pipeline0 = EffPipeline
    /\ key = 0
    /\ consumed = <<>>
    /\ emitted = <<>>
    /\ calls = <<>>
    /\ tc_hist = <<>>
    /\ err = "none"
    /\ f_seed = NoMapping
    /\ f_effs2 = <<>>
    /\ f_effs = <<>>
    /\ f_mid = [state |-> NoMapping, err |-> "none"]
    /\ f_out = [state |-> NoMapping, err |-> "none"]
    /\ acct_states = EmptyDict
    /\ acct_state = AccountState(0, EmptyDict)
    /\ pending = <<>>
    /\ log = <<>>
    /\ store0 = EmptyDict
    /\ RestIdle

\* state = MyStateSentinel(4)
Construct(cls, state_var) ==
    /\ pc = "wrap"
    /\ LET r == StateSentinel(cls, state_var)
       IN  /\ sentinel' = r.obj
           /\ ops' = << Op("construct", r.at, NewObject(cls), r) >>
           /\ pc' = IF r.err = "none" THEN "guarded" ELSE "unmade"
    /\ UNCHANGED <<handlers, reg_log, pipeline, pipeline0, key, consumed, emitted,
                   calls, tc_hist, err, fold_vars, drv_vars, wrk_vars>>

\* state.attr
ReadAttr(attr) ==
    /\ pc = "guarded"
    /\ Len(ops) <= MaxOps
    /\ LET r == __getattribute__(sentinel, attr)
       IN  /\ sentinel' = r.obj
           /\ ops' = Append(ops, Op("read", attr, sentinel, r))
    /\ UNCHANGED <<pipe_vars, fold_vars, drv_vars, wrk_vars>>

\* state.attr = value
AssignAttr(attr, value) ==
    /\ pc = "guarded"
    /\ Len(ops) <= MaxOps
    /\ LET r == __setattr__(sentinel, attr, value)
       IN  /\ sentinel' = r.obj
           /\ ops' = Append(ops, Op("assign", attr, sentinel, r))
    /\ UNCHANGED <<pipe_vars, fold_vars, drv_vars, wrk_vars>>

\* state.update_state(update): the method is read, then called
CallUpdateState(update) ==
    /\ pc = "guarded"
    /\ Len(ops) <= MaxOps
    /\ LET m == __getattribute__(sentinel, "update_state")
           r == IF m.err # "none" THEN m ELSE MyState_update_state(m.obj, update)
       IN  /\ sentinel' = r.obj
           /\ ops' = Append(ops, Op("update_state", "state_var", sentinel, r))
    /\ UNCHANGED <<pipe_vars, fold_vars, drv_vars, wrk_vars>>

\* state.assert_accessed_times(attr, n)
CallAssertAccessedTimes(attr, n) ==
    /\ pc = "guarded"
    /\ Len(ops) <= MaxOps
    /\ LET r == assert_accessed_times(sentinel, attr, n)
       IN  /\ sentinel' = r.obj
           /\ ops' = Append(ops, Op("assert_accessed_times", attr, sentinel, r))
    /\ UNCHANGED <<pipe_vars, fold_vars, drv_vars, wrk_vars>>

\* state.assert_access_order(access_order)
CallAssertAccessOrder(access_order) ==
    /\ pc = "guarded"
    /\ Len(ops) <= MaxOps
    /\ LET r == assert_access_order(sentinel, access_order)
       IN  /\ sentinel' = r.obj
           /\ ops' = Append(ops, Op("assert_access_order", "", sentinel, r))
    /\ UNCHANGED <<pipe_vars, fold_vars, drv_vars, wrk_vars>>

NextSentinel ==
    \/ \E cls \in SlotDecls : Construct(cls, 4)
    \/ \E attr \in ReadNames : ReadAttr(attr)
    \/ \E attr \in AssignNames : AssignAttr(attr, AssignValue(attr))
    \/ CallUpdateState(4)
    \/ CallAssertAccessedTimes("state_var", 1)
    \/ CallAssertAccessOrder(<<"state_var">>)

SpecSentinel == InitSentinel /\ [][NextSentinel]_vars

(***************************************************************************)
(* What the claims are stated with.                                        *)
(***************************************************************************)
HasType(logline) == "type" \in DOMAIN logline
Complete(logline) == HasType(logline) /\ get_common_fields_ok(logline)
IsT(logline) == Complete(logline) /\ logline.type = "T"
IsTxn(logline) ==
    Complete(logline) /\ logline.type \in {"buy", "sell"} /\ "price" \in DOMAIN logline
\* the type is there and nobody handles it
UnknownType(logline) == HasType(logline) /\ logline.type \notin DOMAIN handlers
LacksField(logline) == ~Complete(logline)

\* what logline i, and entry j of its handler list, put on the stream
EffsOf(i) == Effs(SelectSeq(emitted, LAMBDA e : e.src[1] = i))
EffsFrom(i, j) == Effs(SelectSeq(emitted, LAMBDA e : e.src[1] = i /\ e.src[2] = j))
\* the counter after logline i
CountAfter(i) ==
    IF i < Len(consumed) THEN tc_hist[i + 1] ELSE getattr(pipeline, "T_count", 0)
\* the run ended in an exception while it was at logline i
FailedAt(i) == err # "none" /\ pc = "failed" /\ i = Len(consumed)
LexLess(a, b) ==
    \/ a[1] < b[1]
    \/ a[1] = b[1] /\ a[2] < b[2]
    \/ a[1] = b[1] /\ a[2] = b[2] /\ a[3] < b[3]
RegsFor(t) == SelectSeq(reg_log, LAMBDA r : r.type = t)
TimesRegistered(t, h) == Len(SelectSeq(reg_log, LAMBDA r : r.type = t /\ r.h = h))
OnlyTHandlerForT == lookup(handlers, "T") = <<"T_handler_stateful">>

\* C1: with T handled by T_handler_stateful alone, every stretch p..q of
\* consecutive T loglines of a run, entered with the counter at c0 (0 when the
\* pipeline has no T_count), puts exactly one effect per logline on the stream,
\* the one of logline i being (its ticker, max(c0 + (i - p), its amt), its
\* acct_id, its ts), and leaves the pipeline's T_count at c0 + (q - p + 1).
C1_TSequence ==
    OnlyTHandlerForT =>
        \A p \in 1..Len(consumed) : \A q \in p..Len(consumed) :
            (\A i \in p..q : IsT(consumed[i])) =>
                /\ \A i \in p..q :
                     EffsOf(i) = << Eff(consumed[i].ticker,
                                        Max(tc_hist[p] + (i - p), consumed[i].amt),
                                        consumed[i].acct_id, consumed[i].ts) >>
                /\ CountAfter(q) = tc_hist[p] + (q - p + 1)
                /\ (q = Len(consumed) =>
                        /\ "T_count" \in DOMAIN pipeline
                        /\ pipeline.T_count = tc_hist[p] + (q - p + 1))

\* two T loglines in a row on a pipeline that had no T_count, the second one
\* cleared at the counter and not at its own amount
C1_Witness ==
    /\ OnlyTHandlerForT
    /\ "T_count" \notin DOMAIN pipeline0
    /\ Len(consumed) = 2
    /\ IsT(consumed[1]) /\ IsT(consumed[2])
    /\ consumed[2].amt = 0
    /\ Len(emitted) = 2 /\ emitted[2].eff.amt = 1
    /\ pipeline.T_count = 2

\* C2: every call of txn_handler_stateless on a buy logline (ticker t, amount
\* a, price p) yields exactly (t, +a, acct_id, ts) then ("CASH", -a*p, acct_id,
\* ts), and on a sell logline exactly (t, -a, acct_id, ts) then ("CASH", +a*p,
\* acct_id, ts).
C2_TxnEffects ==
    \A i \in 1..Len(consumed) :
        IsTxn(consumed[i]) =>
            LET l == consumed[i]
                hl == lookup(handlers, l.type)
            IN  \A j \in 1..Len(hl) :
                    hl[j] = "txn_handler_stateless" =>
                        EffsFrom(i, j) =
                            IF l.type = "buy"
                            THEN << Eff(l.ticker, l.amt, l.acct_id, l.ts),
                                    Eff("CASH", 0 - (l.amt * l.price), l.acct_id, l.ts) >>
                            ELSE << Eff(l.ticker, 0 - l.amt, l.acct_id, l.ts),
                                    Eff("CASH", l.amt * l.price, l.acct_id, l.ts) >>

\* a buy and then a sell of 2 at the price have been handled
C2_Witness ==
    /\ Len(consumed) = 2
    /\ IsTxn(consumed[1]) /\ consumed[1].type = "buy" /\ consumed[1].amt = 2
    /\ IsTxn(consumed[2]) /\ consumed[2].type = "sell" /\ consumed[2].amt = 2
    /\ \E n \in 1..Len(emitted) :
           emitted[n].eff.ticker = "CASH" /\ emitted[n].eff.amt = 0 - (2 * Price)
    /\ \E n \in 1..Len(emitted) :
           emitted[n].eff.ticker = "CASH" /\ emitted[n].eff.amt = 2 * Price

\* C6: the stream is ordered by (logline, place of the handler in the list of
\* the logline's type, place of the effect in the handler's output), and the
\* handler at place j is the j-th one registered for that type.
C6_EmitOrder ==
    /\ \A m \in 1..Len(emitted) : \A n \in (m + 1)..Len(emitted) :
           LexLess(emitted[m].src, emitted[n].src)
    /\ \A m \in 1..Len(emitted) :
           LET i == emitted[m].src[1]
               j == emitted[m].src[2]
           IN  /\ i \in 1..Len(consumed)
               /\ HasType(consumed[i])
               /\ j \in 1..Len(RegsFor(consumed[i].type))
               /\ emitted[m].h = RegsFor(consumed[i].type)[j].h

\* two loglines of a type that has two different handlers, both run for both
C6_Witness ==
    /\ Len(consumed) = 2
    /\ \A i \in 1..2 :
           /\ HasType(consumed[i])
           /\ Len(lookup(handlers, consumed[i].type)) = 2
           /\ lookup(handlers, consumed[i].type)[1] # lookup(handlers, consumed[i].type)[2]
           /\ Len(EffsFrom(i, 1)) > 0 /\ Len(EffsFrom(i, 2)) > 0

\* C7 as stated: every logline that lacks the type or a common field, whatever
\* its type, makes the run fail at it.
C7_Original ==
    \A i \in 1..Len(consumed) :
        LacksField(consumed[i]) => FailedAt(i) /\ err = "KeyError"

\* C7, amended: a logline without a type, or one whose type has a handler and
\* that lacks a common field, ends the run with KeyError at that logline, with
\* no effect of it yielded, its counter untouched and no later logline taken;
\* a logline of a type nobody handles that lacks a common field yields nothing
\* and raises nothing.
C7_MissingField ==
    \A i \in 1..Len(consumed) :
        LET l == consumed[i]
        IN  /\ (~HasType(l) \/ (LacksField(l) /\ ~UnknownType(l))) =>
                   /\ FailedAt(i) /\ err = "KeyError"
                   /\ EffsOf(i) = <<>>
                   /\ CountAfter(i) = tc_hist[i]
            /\ (LacksField(l) /\ UnknownType(l)) =>
                   /\ ~FailedAt(i)
                   /\ EffsOf(i) = <<>>

\* a run stopped by a T logline without its ts, after one logline that went well
C7_Witness ==
    /\ Len(consumed) = 2
    /\ HasType(consumed[2]) /\ consumed[2].type = "T"
    /\ "ts" \notin DOMAIN consumed[2]
    /\ pc = "failed" /\ err = "KeyError"

\* C8 as stated: each handler is called exactly once per logline of its type,
\* with the arguments its def line declares.
C8_StaticDispatch ==
    \A n \in 1..Len(calls) :
        /\ calls[n].nargs = NParams(calls[n].h)
        /\ calls[n].bound
        /\ \A m \in 1..Len(calls) :
               (calls[m].i = calls[n].i /\ calls[m].j = calls[n].j) => m = n

\* C9: a logline of a type nobody handles yields nothing and raises nothing,
\* and the stream, the pipeline's attributes and the outcome of the run are
\* those of the same run without these loglines.
C9_UnknownType ==
    /\ \A i \in 1..Len(consumed) :
           UnknownType(consumed[i]) => EffsOf(i) = <<>> /\ ~FailedAt(i)
    /\ LET known == SelectSeq(consumed, LAMBDA l : ~UnknownType(l))
           r == RunAll(handlers, known, 1,
                       [effs |-> <<>>, state |-> pipeline0, calls |-> <<>>,
                        err |-> "none"])
       IN  /\ Effs(emitted) = Effs(r.effs)
           /\ pipeline = r.state
           /\ err = r.err

\* an X logline, then a T logline that is cleared as the first of its run
C9_Witness ==
    /\ Len(consumed) = 2
    /\ UnknownType(consumed[1])
    /\ IsT(consumed[2])
    /\ Len(emitted) = 1 /\ emitted[1].src[1] = 2
    /\ pipeline = setattr(pipeline0, "T_count", getattr(pipeline0, "T_count", 0) + 1)
    /\ err = "none"

\* C10: the list of each type is the handlers registered for it, in call
\* order, duplicates kept; a handler is called once per entry, so that
\* T_handler_stateful registered k times for a type yields k effects for a
\* complete logline of that type and raises T_count by k.
C10_Registration ==
    /\ DOMAIN handlers = {reg_log[n].type : n \in 1..Len(reg_log)}
    /\ \A t \in DOMAIN handlers :
           handlers[t] = [n \in 1..Len(RegsFor(t)) |-> RegsFor(t)[n].h]
    /\ \A i \in 1..Len(consumed) :
           (HasType(consumed[i]) /\ ~FailedAt(i)) =>
               LET t == consumed[i].type
               IN  /\ Len(SelectSeq(calls, LAMBDA c : c.i = i /\ c.bound))
                        = Len(RegsFor(t))
                   /\ CountAfter(i) = tc_hist[i] + TimesRegistered(t, "T_handler_stateful")
                   /\ Len(EffsOf(i)) = TimesRegistered(t, "T_handler_stateful")
                                       + 2 * TimesRegistered(t, "txn_handler_stateless")

\* T_handler_stateful registered twice for 'T', and a T logline handled
C10_Witness ==
    /\ lookup(handlers, "T") = <<"T_handler_stateful", "T_handler_stateful">>
    /\ Len(consumed) >= 1 /\ IsT(consumed[1])
    /\ Len(EffsOf(1)) = 2
    /\ CountAfter(1) = tc_hist[1] + 2

RECURSIVE SumFor(_, _)
\* the sum of the amt of the effects for one ticker
SumFor(effs, ticker) ==
    IF effs = <<>> THEN 0
    ELSE (IF Head(effs).ticker = ticker THEN Head(effs).amt ELSE 0)
         + SumFor(Tail(effs), ticker)

\* C4: run_acct_effs(effs, run_acct_effs(effs2, seed)) ends as
\* run_acct_effs(effs2 ++ effs, seed) does: the same mapping, or the same
\* KeyError with the mapping in the same condition.
C4_FoldIncremental ==
    pc = "folded" => f_out = run_acct_effs(f_effs2 \o f_effs, f_seed)

\* both calls were given effects for the same ticker and a seed that holds it
C4_Witness ==
    /\ pc = "folded"
    /\ f_seed.kind = "defaultdict" /\ "AAPL" \in DOMAIN f_seed.d
    /\ Len(f_effs2) = 2 /\ Len(f_effs) = 2
    /\ \A n \in 1..2 : f_effs2[n].ticker = "AAPL" /\ f_effs[n].ticker = "AAPL"
    /\ f_out.err = "none"
    /\ f_out.state.d["AAPL"] = SeedBalance + SumFor(f_effs2 \o f_effs, "AAPL")
    /\ f_out.state.d["AAPL"] # f_mid.state.d["AAPL"]

\* C5 as stated: whatever the initial mapping, run_acct_effs does not fail and
\* its result holds, for each ticker, the initial balance (0 when absent) plus
\* the sum of the effects for it.
C5_NeverFails ==
    pc = "fold2" =>
        /\ f_mid.err = "none"
        /\ \A t \in FoldTickers :
               Balance(f_mid.state, t) = Balance(f_seed, t) + SumFor(f_effs2, t)

\* the account's state in a store, as the driver would fetch it
Initial(states, acct_id) ==
    IF acct_id \in DOMAIN states
    THEN states[acct_id]
    ELSE [T_count |-> 0, posns |-> Mapping("defaultdict", EmptyDict)]
NumT(loglines) == Cardinality({i \in 1..Len(loglines) : loglines[i].type = "T"})
\* every ticker a balance can be under
AllTickers(states) ==
    {"CASH"} \cup {l.ticker : l \in MainInputs}
    \cup UNION {DOMAIN states[a].posns.d : a \in DOMAIN states}
\* a partition has just been processed and stored
PartitionDone == pc \in {"loop", "done"} /\ consumed # <<>>

\* C3: when the driver has processed and stored a partition, the account's
\* stored T_count is its T_count before (0 for an account not in the store)
\* plus the number of T loglines of the partition, and every stored balance
\* is the balance before (0 if absent) plus the sum of the effects emitted
\* for that ticker; an account not in the store begins at T_count 0 with no
\* positions; and the loglines of __main__ leave acct_states equal to
\* final_states (account 1: T_count 7, AAPL 55, GOOG 4, CASH -2550; account
\* 2: T_count 0, GOOG 4, MS -4, CASH -1200).
C3_DriverPartition ==
    /\ PartitionDone =>
           /\ key \in DOMAIN acct_states
           /\ acct_states[key].T_count = Initial(store0, key).T_count + NumT(consumed)
           /\ \A t \in AllTickers(acct_states) :
                  Balance(acct_states[key].posns, t)
                      = Balance(Initial(store0, key).posns, t) + SumFor(Effs(emitted), t)
    /\ (pc = "part" /\ consumed = <<>> /\ key \notin DOMAIN store0) =>
           /\ acct_state.T_count = 0
           /\ acct_state.posns.d = EmptyDict
           /\ pipeline.T_count = 0
    /\ (pc = "done" /\ log = MainLoglines) =>
           /\ acct_states = MainFinalStates
           /\ acct_states[1].T_count = 7
           /\ acct_states[1].posns.d
                  = [t \in {"AAPL", "GOOG", "CASH"} |->
                        IF t = "AAPL" THEN 55 ELSE IF t = "GOOG" THEN 4 ELSE -2550]
           /\ acct_states[2].T_count = 0
           /\ acct_states[2].posns.d
                  = [t \in {"GOOG", "MS", "CASH"} |->
                        IF t = "GOOG" THEN 4 ELSE IF t = "MS" THEN -4 ELSE -1200]

\* the driver has gone through the loglines of __main__: account 1 was in the
\* store and had three T loglines, account 2 was made anew
C3_Witness ==
    /\ pc = "done"
    /\ log = MainLoglines
    /\ DOMAIN acct_states = {1, 2}
    /\ acct_states[1].T_count = 7
    /\ key = 2 /\ key \notin DOMAIN store0

\* T_handler_stateful is in the list of 'T' once and in no other list
StatefulOnlyOnT ==
    \A t \in DOMAIN handlers :
        TimesRegistered(t, "T_handler_stateful") = (IF t = "T" THEN 1 ELSE 0)

\* C16: with T_handler_stateful registered for 'T' alone, the pipeline's
\* T_count (0 while it has none) is never negative and never goes down over
\* the loglines of a run: it is one more after each complete T logline and
\* the same after every logline of another type, handled or not.
C16_TCountMonotone ==
    StatefulOnlyOnT =>
        /\ getattr(pipeline, "T_count", 0) >= 0
        /\ \A i \in 1..Len(consumed) :
               /\ tc_hist[i] >= 0
               /\ CountAfter(i) >= tc_hist[i]
               /\ IsT(consumed[i]) => CountAfter(i) = tc_hist[i] + 1
               /\ (HasType(consumed[i]) /\ consumed[i].type # "T") =>
                      CountAfter(i) = tc_hist[i]

\* a run entered with the counter at 1: a T logline took it to 2 and the buy
\* after it left it there
C16_Witness ==
    /\ StatefulOnlyOnT
    /\ Len(consumed) = 2
    /\ IsT(consumed[1]) /\ IsTxn(consumed[2]) /\ consumed[2].type = "buy"
    /\ tc_hist = <<1, 2>>
    /\ pipeline.T_count = 2
    /\ err = "none"

\* the orders a sequence of n effects can be given in
Perms(n) == {p \in [1..n -> 1..n] : \A i, j \in 1..n : p[i] = p[j] => i = j}
Permuted(effs, p) == [n \in 1..Len(effs) |-> effs[p[n]]]

\* C17: run_acct_effs given the same seed and the same effects in any other
\* order ends the same way: it returns the same mapping, or it raises the
\* KeyError it raised for the first order.
C17_FoldCommutes ==
    pc = "fold2" =>
        \A p \in Perms(Len(f_effs2)) :
            LET r == run_acct_effs(Permuted(f_effs2, p), f_seed)
            IN  /\ r.err = f_mid.err
                /\ f_mid.err = "none" => r.state = f_mid.state

\* two effects of different amounts for the same ticker were folded into a
\* seed that holds the ticker
C17_Witness ==
    /\ pc = "fold2"
    /\ Len(f_effs2) = 2
    /\ f_effs2[1].ticker = f_effs2[2].ticker
    /\ f_effs2[1].amt # f_effs2[2].amt
    /\ f_effs2[1].ticker \in DOMAIN f_seed.d
    /\ f_mid.err = "none"
    /\ f_mid.state.d[f_effs2[1].ticker] = SeedBalance + f_effs2[1].amt + f_effs2[2].amt

\* every ticker a balance of the driver's accounts can be under
DrvTickers == {"CASH"} \cup {l.ticker : l \in {x \in DrvInputs : "ticker" \in DOMAIN x}}
              \cup UNION {DOMAIN DrvAcctStates[a].posns.d : a \in DOMAIN DrvAcctStates}

\* C15: from the moment the driver takes up a partition to the moment it has
\* stored the account's state (or the pipeline has raised), acct_states holds
\* for every other account exactly the state it held when the partition
\* began, and holds no account but those and the partition's own, also when
\* that account is new and its state is made by AccountState(); the registry
\* is the list of the handle() calls made before the loop.
C15_OtherAccountsUntouched ==
    /\ \A a \in DOMAIN store0 :
           a # key => a \in DOMAIN acct_states /\ acct_states[a] = store0[a]
    /\ DOMAIN acct_states \subseteq (DOMAIN store0) \cup {key}
    /\ handlers = handle_all(EmptyDict, reg_log)
    /\ reg_log \in DrvRegistries

\* the partition of account 2, which was not in the store, has been processed
\* and stored with a counter and a balance of its own; account 1 is as it was
C15_Witness ==
    /\ PartitionDone
    /\ key = 2 /\ key \notin DOMAIN store0
    /\ 1 \in DOMAIN store0
    /\ key \in DOMAIN acct_states
    /\ acct_states[key].T_count = 1
    /\ Balance(acct_states[key].posns, "AAPL") = 2
    /\ acct_states[1] = store0[1]

\* the loglines the driver has processed so far, and those of one account
Processed == SubSeq(log, 1, Len(log) - Len(pending))
ProcessedOf(a) == SelectSeq(Processed, LAMBDA l : l.acct_id = a)
\* the partitions of account a processed so far
PartitionsOf(a) ==
    Cardinality({n \in 1..Len(Processed) :
                    /\ Processed[n].acct_id = a
                    /\ (n = 1 \/ Processed[n - 1].acct_id # a)})

\* C18: when the driver is between partitions or done, none having raised,
\* the stored state of every account is the state one single cycle over all
\* of the account's loglines processed so far, in their order, would have
\* stored, into however many partitions the input had them split; an
\* account none of whose loglines was processed is as it was before the loop.
C18_Resumable ==
    pc \in {"loop", "done"} =>
        \A a \in DOMAIN acct_states :
            IF ProcessedOf(a) = <<>>
            THEN a \in DOMAIN DrvAcctStates /\ acct_states[a] = DrvAcctStates[a]
            ELSE /\ Cycle(DrvAcctStates, a, ProcessedOf(a)).err = "none"
                 /\ acct_states[a] = Cycle(DrvAcctStates, a, ProcessedOf(a)).acct

\* account 1 was processed in two partitions, a T logline in each, with a
\* partition of account 2 between them
C18_Witness ==
    /\ pc = "done"
    /\ PartitionsOf(1) = 2
    /\ Len(ProcessedOf(1)) = 2
    /\ \A n \in 1..2 : IsT(ProcessedOf(1)[n])
    /\ acct_states[1].T_count = DrvAcctStates[1].T_count + 2
    /\ Balance(acct_states[1].posns, "AAPL") = SeedBalance + 1 + 2

\* C19: when the pipeline has raised in the partition of an account that was
\* in the store, no logline after the failing one has been read, and the
\* store holds for the account the T_count it had when the partition began
\* and, for each ticker, the balance it had then plus the sum of the effects
\* yielded before the failure.
C19_FailedPartition ==
    (pc = "failed" /\ key \in DOMAIN store0) =>
        /\ consumed # <<>>
        /\ log # <<>> /\ log[Len(log)] = consumed[Len(consumed)]
        /\ pending = <<>>
        /\ key \in DOMAIN acct_states
        /\ acct_states[key].T_count = store0[key].T_count
        /\ \A t \in DrvTickers :
               Balance(acct_states[key].posns, t)
                   = Balance(store0[key].posns, t) + SumFor(Effs(emitted), t)

\* account 1 was in the store; a buy went well, then a T logline yielded the
\* effect of T_handler_stateful and the next handler raised
C19_Witness ==
    /\ pc = "failed"
    /\ key = 1 /\ key \in DOMAIN store0
    /\ Len(consumed) = 2
    /\ Len(emitted) = 3
    /\ pipeline.T_count = store0[key].T_count + 1
    /\ acct_states[key].T_count = store0[key].T_count
    /\ Balance(acct_states[key].posns, "AAPL") = SeedBalance + 2 + 1
    /\ Balance(acct_states[key].posns, "CASH") = 0 - (2 * Price)

\* the orders the accounts of S can be taken in
Orders(S) == {o \in [1..Cardinality(S) -> S] : \A i, j \in DOMAIN o : o[i] = o[j] => i = j}
AllWorkersDone == \A a \in DOMAIN workers : workers[a].pc \in {"stored", "failed"}
Stored == {a \in DOMAIN workers : workers[a].pc = "stored"}

\* C11: with the registry populated before any worker starts, when every
\* worker has ended, however their steps were interleaved, acct_states holds
\* for each account whose partition was run to its end the state that
\* processing these accounts one after another, in any order, leaves for it.
C11_WorkersAsSequential ==
    (pc = "workers" /\ AllWorkersDone) =>
        /\ handlers = handle_all(EmptyDict, reg_log)
        /\ \A order \in Orders(Stored) :
               \A a \in Stored :
                   /\ a \in DOMAIN acct_states
                   /\ acct_states[a] = OneAfterAnother(order, DrvAcctStates)[a]

\* both workers ran a partition of two loglines with a T logline in it to the
\* end, each taking steps while the other was in the middle of its own
C11_Witness ==
    /\ pc = "workers" /\ AllWorkersDone
    /\ Stored = Accts
    /\ \A a \in Accts :
           /\ workers[a].overlapped
           /\ Len(parts[a]) = 2
           /\ \E n \in 1..2 : IsT(parts[a][n])
           /\ acct_states[a].T_count > Initial(DrvAcctStates, a).T_count

\* the attribute values of the sentinel, and its access log
Values(obj) == <<obj.slot, obj.keys, obj.ints, obj.guard_state>>
LogOf(obj) == <<obj._attr_accesses, obj._attr_access_order>>
\* the reads of declared attributes made so far, in order: those asked for
\* from outside, and the one `self.state_var += update` makes
DeclaredReads ==
    LET made == SelectSeq(ops, LAMBDA e : /\ e.op \in {"read", "update_state"}
                                          /\ e.attr \in SlotNames(sentinel.cls))
    IN  [n \in 1..Len(made) |-> made[n].attr]
Times(seq, a) == Len(SelectSeq(seq, LAMBDA x : x = a))

\* C12 as stated: the assignment the wrapped class's __init__ makes succeeds
\* and the instance holds the value; on the constructed instance every
\* assignment, direct, of a name not seen before, or made by update_state,
\* raises AssertionError and leaves every attribute value as it was.
C12_AssignmentsRejected ==
    \A n \in 1..Len(ops) :
        /\ ops[n].op = "construct" =>
               /\ ~(ops[n].err # "none" /\ ops[n].attr = "cls.__init__")
               /\ ops[n].err = "none" => int_value(ops[n].after, "state_var") = 4
        /\ ops[n].op \in {"assign", "update_state"} =>
               /\ ops[n].err = "AssertionError"
               /\ Values(ops[n].after) = Values(ops[n].before)

\* C13 as stated: on a constructed sentinel _attr_access_order is the
\* sequence of the reads of declared attributes, _attr_accesses counts each
\* of them, and neither the two assert methods, nor a read of a logging
\* field, nor a rejected direct assignment adds to the log.
C13_AccessLog ==
    pc = "guarded" =>
        /\ sentinel._attr_access_order = DeclaredReads
        /\ \A a \in ReadNames \cup AssignNames :
               getattr(sentinel._attr_accesses, a, 0) = Times(DeclaredReads, a)
        /\ \A n \in 2..Len(ops) :
               (\/ ops[n].op \in {"assert_accessed_times", "assert_access_order", "assign"}
                \/ ops[n].op = "read" /\ ops[n].attr \in logging_attrs) =>
                   LogOf(ops[n].after) = LogOf(ops[n].before)

\* C14 as stated, for the names that are nothing of the object: a read of a
\* name that is not a slot of the wrapped class, nor a key of __dict__, nor an
\* attribute of the classes, raises AttributeError and leaves the counter and
\* the order as they were.
C14_UnknownRead ==
    \A n \in 1..Len(ops) :
        (/\ ops[n].op = "read"
         /\ ops[n].attr \notin SlotNames(sentinel.cls)
         /\ ops[n].attr \notin ops[n].before.keys \cup ClassAttrs) =>
            /\ ops[n].err = "AttributeError"
            /\ LogOf(ops[n].after) = LogOf(ops[n].before)

====
